---------------------------- MODULE Spec2Model ----------------------------
(***************************************************************************)
(* A model of the DeFi LP APY calculator: the rate conversion and growth   *)
(* projection (logic/calculations.py), the impermanent-loss table          *)
(* (logic/calculations.py), the pool quality assessor                      *)
(* (logic/validation.py) and the cached pool fetch driven by the app's     *)
(* reruns (logic/fetch_pools.py, app.py).                                  *)
(*                                                                         *)
(* Number representations                                                  *)
(*   - The projection works on Python floats.  Rates and growth factors    *)
(*     are modelled in fixed point with 8 decimals (Scale), currency       *)
(*     amounts in thousandths of a dollar (mills), APY inputs in           *)
(*     hundredths of a percent.  A Python value is a record [k, v] with    *)
(*     k = "num" (v the fixed-point number), "nan" or "none".              *)
(*   - The impermanent-loss table depends on the exact rounding of IEEE    *)
(*     binary64 arithmetic, so it is modelled on binary64 values exactly   *)
(*     (sign, 53-bit mantissa as limbs, exponent).                         *)
(***************************************************************************)
EXTENDS Integers, Sequences, FiniteSets, TLC

VARIABLES
    pc,            \* "start" before the operation, its name after it
    position_usd,  \* argument position_usd (mills; whole dollars for build_il_table)
    apy_percent,   \* argument apy_percent (a Python value, hundredths of a percent)
    days,          \* argument days / horizon_days (an integer)
    compounded,    \* argument compounded
    step,          \* argument step of build_il_table, the literal step/100
    max_move,      \* argument max_move of build_il_table, the literal max_move/100
    pool_row,      \* argument pool_row of assess_pool_quality
    result,        \* the value the operation returned
    clock,         \* minutes since the app's server started
    cache,         \* st.cache_data's entries of get_pools_df, by argument
    refresh,       \* the refresh button's value in the last rerun
    pools_df,      \* the fetch time of the data the last rerun got (-1: none)
    fetched,       \* whether the last rerun called the remote API
    pressed_at     \* the time of the last rerun with the button pressed (-1: none)

inputs == <<position_usd, apy_percent, days, compounded, step, max_move, pool_row>>
appVars == <<clock, cache, refresh, pools_df, fetched, pressed_at>>
vars == <<pc, inputs, result, appVars>>

---------------------------------------------------------------------------
(* Python values of the projection *)

Num(n) == [k |-> "num", v |-> n]
NaN == [k |-> "nan", v |-> 0]
None == [k |-> "none", v |-> 0]
Raise == [k |-> "raise", v |-> 0]
NoResult == [k |-> "noresult", v |-> 0]

IsNum(x) == x.k = "num"

Scale == 10^8
Half == 10^4

(* x*y of two fixed-point numbers, truncated to 8 decimals, without *)
(* leaving 32-bit integers: x = x1*Half + x0, y = y1*Half + y0.     *)
MulFix(x, y) ==
    LET x1 == x \div Half
        x0 == x % Half
        y1 == y \div Half
        y0 == y % Half
    IN  x1 * y1 + ((x1 * y0 + x0 * y1 + ((x0 * y0) \div Half)) \div Half)

(* x ** n for an integer n >= 1 by squaring, every product truncated *)
RECURSIVE PowFix(_, _)
PowFix(x, n) ==
    IF n = 1 THEN x
    ELSE LET h == PowFix(x, n \div 2)
             s == MulFix(h, h)
         IN  IF n % 2 = 1 THEN MulFix(s, x) ELSE s

(* the greatest r in lo..hi with (1 + r) ** n <= x, by bisection *)
RECURSIVE RootSearch(_, _, _, _)
RootSearch(x, n, lo, hi) ==
    IF lo >= hi THEN lo
    ELSE LET mid == (lo + hi + 1) \div 2
         IN  IF PowFix(Scale + mid, n) <= x
             THEN RootSearch(x, n, mid, hi)
             ELSE RootSearch(x, n, lo, mid - 1)

(* x ** (1/n) - 1 for x >= 1: (1 + r) ** n >= 1 + n*r bounds the search *)
RootFix(x, n) == RootSearch(x, n, 0, (x - Scale) \div n)

YearDays == 365

(* max(float(v), 0.0): float(None) raises TypeError; max returns its first *)
(* argument unless the second is greater, and 0.0 > nan is false.          *)
FloatMax0(x) ==
    CASE x.k = "none" -> Raise
      [] x.k = "nan" -> NaN
      [] OTHER -> IF 0 > x.v THEN Num(0) ELSE x

(* apy_percent (hundredths of a percent) / 100.0 as a fraction at Scale *)
PercentToFraction(x) == IF IsNum(x) THEN Num(x.v * Half) ELSE x

apy_to_daily_rate_360(apy) ==
    LET a == PercentToFraction(FloatMax0(apy))
    IN  IF IsNum(a) THEN Num(RootFix(Scale + a.v, 360)) ELSE a

apy_to_daily_rate(apy) ==
    LET a == PercentToFraction(FloatMax0(apy))
    IN  IF IsNum(a) THEN Num(RootFix(Scale + a.v, YearDays)) ELSE a

simple_daily_rate_from_apy(apy) ==
    LET a == PercentToFraction(FloatMax0(apy))
    IN  IF IsNum(a) THEN Num(a.v \div YearDays) ELSE a

(* (1.0 + r) ** d: pow(x, 0) is 1.0 for every x, nan included *)
PowFloat(r, d) ==
    CASE r.k = "raise" -> Raise
      [] d = 0 -> Num(Scale)
      [] r.k = "nan" -> NaN
      [] OTHER -> Num(PowFix(Scale + r.v, d))

(* 1.0 + r * d *)
LinFloat(r, d) ==
    CASE r.k = "raise" -> Raise
      [] r.k = "nan" -> NaN
      [] OTHER -> Num(Scale + r.v * d)

(* position * factor: mills times a fixed-point factor, in mills *)
MulAmount(p, f) == IF IsNum(f) THEN Num(MulFix(p, f.v)) ELSE f

Max(a, b) == IF a >= b THEN a ELSE b

project_end_value(pos, apy, d, comp) ==
    LET position == Max(pos, 0)
        dd == Max(d, 0)
    IN  IF comp
        THEN MulAmount(position, PowFloat(apy_to_daily_rate(apy), dd))
        ELSE MulAmount(position, LinFloat(simple_daily_rate_from_apy(apy), dd))

(* round(x, 2) of an amount in mills, in cents: to nearest, ties to even *)
Round2(n) ==
    LET q == n \div 10
        r == n % 10
    IN  IF r > 5 \/ (r = 5 /\ q % 2 = 1) THEN q + 1 ELSE q

RoundVal(x) == IF IsNum(x) THEN Num(Round2(x.v)) ELSE x

SubVal(x, p) == IF IsNum(x) THEN Num(x.v - p) ELSE x

Milestones == {1, 7, 14, 30, 60, 90, 180, 365}

SetMin(S) == CHOOSE x \in S : \A y \in S : x <= y

(* sorted(set(...)) *)
RECURSIVE Sorted(_)
Sorted(S) ==
    IF S = {} THEN <<>>
    ELSE LET m == SetMin(S) IN <<m>> \o Sorted(S \ {m})

MilestoneDaysNoHorizon(h) ==
    LET horizon == Max(h, 1)
        IsWithin(m) == m <= horizon
    IN  SelectSeq(Sorted(Milestones), IsWithin)

MilestoneDays(h) ==
    LET horizon == Max(h, 1)
        IsWithin(m) == m <= horizon
    IN  SelectSeq(Sorted(Milestones \cup {horizon}), IsWithin)

GrowthRowClamped(pos, apy, d, comp) ==
    LET end_value == project_end_value(pos, apy, d, comp)
    IN  [Day |-> d,
         Start |-> Round2(pos),
         End |-> RoundVal(end_value),
         Profit |-> RoundVal(SubVal(end_value, Max(pos, 0)))]

GrowthRow(pos, apy, d, comp) ==
    LET end_value == project_end_value(pos, apy, d, comp)
    IN  [Day |-> d,
         Start |-> Round2(pos),
         End |-> RoundVal(end_value),
         Profit |-> RoundVal(SubVal(end_value, pos))]

(* the rows of the DataFrame, or Raise when a row's computation raises *)
project_growth_table(pos, apy, h, comp) ==
    LET ms == MilestoneDays(h)
        rows == [i \in 1..Len(ms) |-> GrowthRow(pos, apy, ms[i], comp)]
    IN  IF \E i \in 1..Len(ms) : rows[i].End.k = "raise" THEN Raise
        ELSE [k |-> "table", v |-> rows]

---------------------------------------------------------------------------
(* Natural numbers of any size: sequences of limbs, least significant      *)
(* first, no leading zero limb (<<>> is 0).  They carry the 53-bit         *)
(* mantissas of binary64 values and their 106-bit products.                *)

Base == 2^15

RECURSIVE BFromInt(_)
BFromInt(n) == IF n = 0 THEN <<>> ELSE <<n % Base>> \o BFromInt(n \div Base)

RECURSIVE BToInt(_)
BToInt(a) == IF a = <<>> THEN 0 ELSE a[1] + Base * BToInt(Tail(a))

RECURSIVE BTrim(_)
BTrim(a) ==
    IF a = <<>> \/ a[Len(a)] # 0 THEN a ELSE BTrim(SubSeq(a, 1, Len(a) - 1))

Limb(a, i) == IF i <= Len(a) THEN a[i] ELSE 0

RECURSIVE BAddC(_, _, _, _)
BAddC(a, b, i, c) ==
    IF i > Len(a) /\ i > Len(b)
    THEN IF c = 0 THEN <<>> ELSE <<c>>
    ELSE LET t == Limb(a, i) + Limb(b, i) + c
         IN  <<t % Base>> \o BAddC(a, b, i + 1, t \div Base)

BAdd(a, b) == BAddC(a, b, 1, 0)

RECURSIVE BSubC(_, _, _, _)
BSubC(a, b, i, c) ==
    IF i > Len(a) THEN <<>>
    ELSE LET t == a[i] - Limb(b, i) - c
         IN  <<t % Base>> \o BSubC(a, b, i + 1, IF t < 0 THEN 1 ELSE 0)

(* a - b for a >= b *)
BSub(a, b) == BTrim(BSubC(a, b, 1, 0))

RECURSIVE BCmpAt(_, _, _)
BCmpAt(a, b, i) ==
    IF i = 0 THEN 0
    ELSE IF a[i] # b[i] THEN (IF a[i] < b[i] THEN -1 ELSE 1)
    ELSE BCmpAt(a, b, i - 1)

(* -1, 0, 1 as a < b, a = b, a > b *)
BCmp(a, b) ==
    IF Len(a) # Len(b) THEN (IF Len(a) < Len(b) THEN -1 ELSE 1)
    ELSE BCmpAt(a, b, Len(a))

RECURSIVE BMulSmallC(_, _, _, _)
BMulSmallC(a, n, i, c) ==
    IF i > Len(a)
    THEN IF c = 0 THEN <<>> ELSE <<c>>
    ELSE LET t == a[i] * n + c
         IN  <<t % Base>> \o BMulSmallC(a, n, i + 1, t \div Base)

(* a * n for 0 <= n < Base *)
BMulSmall(a, n) == IF n = 0 THEN <<>> ELSE BMulSmallC(a, n, 1, 0)

RECURSIVE BMul(_, _)
BMul(a, b) ==
    IF a = <<>> \/ b = <<>> THEN <<>>
    ELSE LET r == BMul(a, Tail(b))
         IN  BAdd(BMulSmall(a, b[1]), IF r = <<>> THEN <<>> ELSE <<0>> \o r)

RECURSIVE BDivSmallAt(_, _, _, _)
BDivSmallAt(a, d, i, r) ==
    IF i = 0 THEN <<>>
    ELSE LET t == r * Base + a[i]
         IN  BDivSmallAt(a, d, i - 1, t % d) \o <<t \div d>>

(* a \div d for 0 < d < Base *)
BDivSmall(a, d) == IF d = 1 THEN a ELSE BTrim(BDivSmallAt(a, d, Len(a), 0))

(* a * 2^n *)
BShl(a, n) ==
    IF a = <<>> THEN <<>>
    ELSE [i \in 1..(n \div 15) |-> 0] \o BMulSmall(a, 2^(n % 15))

(* a \div 2^n *)
BShr(a, n) ==
    IF n \div 15 >= Len(a) THEN <<>>
    ELSE BDivSmall(SubSeq(a, (n \div 15) + 1, Len(a)), 2^(n % 15))

RECURSIVE IntBitLen(_)
IntBitLen(n) == IF n = 0 THEN 0 ELSE 1 + IntBitLen(n \div 2)

BBitLen(a) == IF a = <<>> THEN 0 ELSE (Len(a) - 1) * 15 + IntBitLen(a[Len(a)])

BOdd(a) == a # <<>> /\ a[1] % 2 = 1

BOne == <<1>>

(* <<q, r>> with n * 2^j = q * d + r, r < d, for the j that gives q exactly *)
(* `bits` bits: restoring division, one quotient bit per step, started     *)
(* with q = 0 and r = n < 2 * d                                             *)
RECURSIVE BDivBits(_, _, _, _)
BDivBits(r, d, q, bits) ==
    LET ge == BCmp(r, d) >= 0
        r1 == IF ge THEN BSub(r, d) ELSE r
        q1 == BAdd(BAdd(q, q), IF ge THEN BOne ELSE <<>>)
    IN  IF BBitLen(q1) >= bits THEN <<q1, r1>>
        ELSE BDivBits(BAdd(r1, r1), d, q1, bits)

(* <<floor(sqrt(n)), remainder>> digit by digit; bit is a power of 4 *)
RECURSIVE BSqrtBits(_, _, _)
BSqrtBits(n, res, bit) ==
    IF bit = <<>> THEN <<res, n>>
    ELSE LET t == BAdd(res, bit)
         IN  IF BCmp(n, t) >= 0
             THEN BSqrtBits(BSub(n, t), BAdd(BShr(res, 1), bit), BShr(bit, 2))
             ELSE BSqrtBits(n, BShr(res, 1), BShr(bit, 2))

BSqrt(n) ==
    LET L == BBitLen(n)
        top == IF L % 2 = 1 THEN L - 1 ELSE L - 2
    IN  IF n = <<>> THEN <<(<<>>), (<<>>)>> ELSE BSqrtBits(n, <<>>, BShl(BOne, top))

---------------------------------------------------------------------------
(* IEEE 754 binary64 values: [k, s, m, e] is (-1)^s * m * 2^e with         *)
(* 2^52 <= m < 2^53 (k = "fin", m = <<>> for a zero), or a NaN (k = "nan") *)
(* or an infinity (k = "inf").  Every operation rounds to nearest, ties to *)
(* even.  Subnormals and overflow are outside the values the tables reach; *)
(* an infinity arises only from x/0 with x non-zero, which no call of the  *)
(* table reaches (2 + m = 0 only where the square root is already nan), so *)
(* arithmetic on infinities is not modelled beyond yielding nan.           *)

FNaN == [k |-> "nan", s |-> 0, m |-> <<>>, e |-> 0]
FInf(s) == [k |-> "inf", s |-> s, m |-> <<>>, e |-> 0]
FZero(s) == [k |-> "fin", s |-> s, m |-> <<>>, e |-> 0]

FIsNaN(x) == x.k = "nan"
FIsFinite(x) == x.k = "fin"
FIsZero(x) == x.k = "fin" /\ x.m = <<>>

(* the binary64 nearest to (-1)^s * M * 2^e *)
FPack(s, M, e) ==
    IF M = <<>> THEN FZero(s)
    ELSE LET L == BBitLen(M)
         IN  IF L <= 53
             THEN [k |-> "fin", s |-> s, m |-> BShl(M, 53 - L), e |-> e - (53 - L)]
             ELSE LET sh == L - 53
                      q == BShr(M, sh)
                      rem == BSub(M, BShl(q, sh))
                      c == BCmp(rem, BShl(BOne, sh - 1))
                      q1 == IF c > 0 \/ (c = 0 /\ BOdd(q)) THEN BAdd(q, BOne) ELSE q
                  IN  IF BBitLen(q1) > 53
                      THEN [k |-> "fin", s |-> s, m |-> BShr(q1, 1), e |-> e + sh + 1]
                      ELSE [k |-> "fin", s |-> s, m |-> q1, e |-> e + sh]

FFromInt(n) == IF n < 0 THEN FPack(1, BFromInt(0 - n), 0) ELSE FPack(0, BFromInt(n), 0)

FNeg(x) == [x EXCEPT !.s = 1 - x.s]

FAdd(x, y) ==
    CASE x.k # "fin" \/ y.k # "fin" -> FNaN
      [] FIsZero(x) /\ FIsZero(y) -> FZero(IF x.s = 1 /\ y.s = 1 THEN 1 ELSE 0)
      [] FIsZero(x) -> y
      [] FIsZero(y) -> x
      [] OTHER ->
            LET e == IF x.e < y.e THEN x.e ELSE y.e
                mx == BShl(x.m, x.e - e)
                my == BShl(y.m, y.e - e)
                c == BCmp(mx, my)
            IN  IF x.s = y.s THEN FPack(x.s, BAdd(mx, my), e)
                ELSE IF c = 0 THEN FZero(0)
                ELSE IF c > 0 THEN FPack(x.s, BSub(mx, my), e)
                ELSE FPack(y.s, BSub(my, mx), e)

FSub(x, y) == FAdd(x, FNeg(y))

FMul(x, y) ==
    IF x.k # "fin" \/ y.k # "fin" THEN FNaN
    ELSE FPack((x.s + y.s) % 2, BMul(x.m, y.m), x.e + y.e)

(* numpy's float64 division: x/0 is nan for x zero or nan, else an infinity *)
FDiv(x, y) ==
    CASE x.k # "fin" \/ y.k # "fin" -> FNaN
      [] FIsZero(y) -> IF FIsZero(x) THEN FNaN ELSE FInf((x.s + y.s) % 2)
      [] FIsZero(x) -> FZero((x.s + y.s) % 2)
      [] OTHER ->
            LET j == IF BCmp(x.m, y.m) >= 0 THEN 54 ELSE 55
                qr == BDivBits(x.m, y.m, <<>>, 55)
                sticky == IF qr[2] = <<>> THEN <<>> ELSE BOne
            IN  FPack((x.s + y.s) % 2, BAdd(BAdd(qr[1], qr[1]), sticky),
                      x.e - y.e - j - 1)

(* np.sqrt: nan (with a RuntimeWarning) below zero *)
FSqrt(x) ==
    CASE x.k # "fin" -> FNaN
      [] FIsZero(x) -> x
      [] x.s = 1 -> FNaN
      [] OTHER ->
            LET sh == IF (x.e - 58) % 2 = 0 THEN 58 ELSE 57
                qr == BSqrt(BShl(x.m, sh))
                sticky == IF qr[2] = <<>> THEN <<>> ELSE BOne
            IN  FPack(0, BAdd(BAdd(qr[1], qr[1]), sticky), ((x.e - sh) \div 2) - 1)

(* int(x) of a finite x: truncation toward zero *)
FToInt(x) ==
    IF FIsZero(x) THEN 0
    ELSE LET n == IF x.e >= 0 THEN BToInt(BShl(x.m, x.e)) ELSE BToInt(BShr(x.m, 0 - x.e))
         IN  IF x.s = 1 THEN 0 - n ELSE n

(* ceil(x) of a finite x, as an integer *)
FCeil(x) ==
    LET t == FToInt(x)
        exact == x.e >= 0 \/ BShl(BShr(x.m, 0 - x.e), 0 - x.e) = x.m
    IN  IF FIsZero(x) \/ x.s = 1 \/ exact THEN t ELSE t + 1

(* np.rint: the nearest integer, ties to even, as a binary64 *)
FRint(x) ==
    IF x.k # "fin" \/ FIsZero(x) \/ x.e >= 0 THEN x
    ELSE LET sh == 0 - x.e
             q == BShr(x.m, sh)
             rem == BSub(x.m, BShl(q, sh))
             c == BCmp(rem, BShl(BOne, sh - 1))
             q1 == IF c > 0 \/ (c = 0 /\ BOdd(q)) THEN BAdd(q, BOne) ELSE q
         IN  FPack(x.s, q1, 0)

(* x <= 0.0 and x = 0.0 (false for a nan) *)
FLeZero(x) == x.k = "fin" /\ (x.m = <<>> \/ x.s = 1)
FEqZero(x) == FIsZero(x)

(* the decimal literal n/100 as Python reads it: the nearest binary64 *)
Hundredths(n) == FDiv(FFromInt(n), FFromInt(100))

(* numpy's round(x, 2) of a float64: rint(x * 100) / 100 *)
NpRound2(x) == FDiv(FRint(FMul(x, FFromInt(100))), FFromInt(100))

---------------------------------------------------------------------------
(* The impermanent-loss table, on binary64 values *)

F1 == FFromInt(1)
F2 == FFromInt(2)
F100 == FFromInt(100)

(* (2 * np.sqrt(1 + price_change) / (2 + price_change)) - 1 *)
impermanent_loss(price_change) ==
    FSub(FDiv(FMul(F2, FSqrt(FAdd(F1, price_change))), FAdd(F2, price_change)), F1)

(* np.arange(start, stop, st): ceil((stop - start) / st) values; the first *)
(* two are start and start + st, the others start + i * delta with         *)
(* delta = (start + st) - start                                            *)
Arange(start, stop, st) ==
    LET length == FCeil(FDiv(FSub(stop, start), st))
        next == FAdd(start, st)
        delta == FSub(next, start)
    IN  [i \in 1..length |->
            CASE i = 1 -> start
              [] i = 2 -> next
              [] OTHER -> FAdd(start, FMul(FFromInt(i - 1), delta))]

ILRow(pos, m) ==
    LET il == impermanent_loss(m)
    IN  [Move |-> FToInt(FMul(m, F100)),
         ILPct |-> NpRound2(FMul(il, F100)),
         ILUsd |-> NpRound2(FMul(pos, il))]

(* pos, st and mx are binary64 values; the rows of the DataFrame *)
build_il_table(pos, st, mx) ==
    LET moves == Arange(FNeg(mx), FAdd(mx, st), st)
    IN  [k |-> "iltable", v |-> [i \in 1..Len(moves) |-> ILRow(pos, moves[i])]]

---------------------------------------------------------------------------
(* The projection: inputs drawn at Init, one action per function *)

NegDays == 2
MaxDays == 366
MaxApy == 20000

PositionSamples == {-100000, 0, 4, 100000, 100004, 123456}
ApySamples == {None, NaN, Num(-500), Num(0), Num(1200), Num(MaxApy)}
DaySamples ==
    ((0 - NegDays)..2) \cup {7, 8, 14, 29, 30, 31, 59, 60, 90, 180, 200, 364, 365, MaxDays}
AllDays == (0 - NegDays)..MaxDays

IdleIL == step = 0 /\ max_move = 0
IdleQuality == pool_row = <<>>
IdleProjection == apy_percent = None /\ days = 0 /\ compounded = FALSE
IdleApp ==
    /\ clock = 0
    /\ cache = <<>>
    /\ refresh = FALSE
    /\ pools_df = -1
    /\ fetched = FALSE
    /\ pressed_at = -1

InitProjection ==
    /\ pc = "start"
    /\ position_usd \in PositionSamples
    /\ apy_percent \in ApySamples
    /\ days \in DaySamples
    /\ compounded \in BOOLEAN
    /\ result = NoResult
    /\ IdleIL /\ IdleQuality /\ IdleApp

(* every horizon, for the milestones of project_growth_table *)
InitHorizon ==
    /\ pc = "start"
    /\ position_usd = 100000
    /\ apy_percent \in {Num(0), Num(1200)}
    /\ days \in AllDays
    /\ compounded \in BOOLEAN
    /\ result = NoResult
    /\ IdleIL /\ IdleQuality /\ IdleApp

ApyToDailyRate ==
    /\ pc = "start"
    /\ pc' = "apy_to_daily_rate"
    /\ result' = apy_to_daily_rate(apy_percent)
    /\ UNCHANGED <<inputs, appVars>>

SimpleDailyRateFromApy ==
    /\ pc = "start"
    /\ pc' = "simple_daily_rate_from_apy"
    /\ result' = simple_daily_rate_from_apy(apy_percent)
    /\ UNCHANGED <<inputs, appVars>>

ProjectEndValue ==
    /\ pc = "start"
    /\ pc' = "project_end_value"
    /\ result' = project_end_value(position_usd, apy_percent, days, compounded)
    /\ UNCHANGED <<inputs, appVars>>

ProjectGrowthTable ==
    /\ pc = "start"
    /\ pc' = "project_growth_table"
    /\ result' = project_growth_table(position_usd, apy_percent, days, compounded)
    /\ UNCHANGED <<inputs, appVars>>

NextProjection ==
    \/ ApyToDailyRate
    \/ SimpleDailyRateFromApy
    \/ ProjectEndValue
    \/ ProjectGrowthTable

Spec == InitProjection /\ [][NextProjection]_vars

NextHorizon == ProjectGrowthTable

SpecHorizon == InitHorizon /\ [][NextHorizon]_vars

Abs(n) == IF n < 0 THEN 0 - n ELSE n

Rows == result.v

TableReturned == pc = "project_growth_table" /\ result.k = "table"

(* C1: the Day column of project_growth_table is ({1, 7, 14, 30, 60, 90, 180, *)
(* 365} intersected with [1, horizon]) united with {horizon}, horizon being   *)
(* max(horizon_days, 1), strictly ascending, the last row's day being         *)
(* horizon and horizon appearing exactly once.                                *)
C1_MilestoneDays ==
    TableReturned =>
        LET horizon == Max(days, 1)
        IN  /\ {Rows[i].Day : i \in DOMAIN Rows} =
                   (Milestones \cap (1..horizon)) \cup {horizon}
            /\ \A i \in 1..(Len(Rows) - 1) : Rows[i].Day < Rows[i + 1].Day
            /\ Rows[Len(Rows)].Day = horizon
            /\ Cardinality({i \in DOMAIN Rows : Rows[i].Day = horizon}) = 1

C1_Witness ==
    /\ TableReturned
    /\ days = 30
    /\ [i \in DOMAIN Rows |-> Rows[i].Day] = <<1, 7, 14, 30>>

AbsentOrNegative(apy) == apy.k \in {"none", "nan"} \/ (IsNum(apy) /\ apy.v < 0)

(* C2: for a negative or absent (None / NaN) APY both rate conversions return *)
(* exactly 0 without raising, and project_end_value returns the clamped       *)
(* position unchanged for every day count under both policies.                *)
C2_AbsentApyIsZero ==
    AbsentOrNegative(apy_percent) =>
        /\ pc \in {"apy_to_daily_rate", "simple_daily_rate_from_apy"} => result = Num(0)
        /\ pc = "project_end_value" => result = Num(Max(position_usd, 0))

(* C3: for a negative position (and a numeric APY) project_end_value returns 0 *)
(* and every row of project_growth_table reports startValue, endValue and      *)
(* profit all zero, as the table for position 0 does.                          *)
C3_NegativePositionClamped ==
    (position_usd < 0 /\ IsNum(apy_percent)) =>
        /\ pc = "project_end_value" => result = Num(0)
        /\ TableReturned =>
              /\ Rows = project_growth_table(0, apy_percent, days, compounded).v
              /\ \A i \in DOMAIN Rows :
                    Rows[i].Start = 0 /\ Rows[i].End = Num(0) /\ Rows[i].Profit = Num(0)

(* C4 as stated: on the reported 2-decimal values of every row (numeric APY), *)
(* profit = endValue - startValue, and startValue is the same in all rows and *)
(* equals the supplied positionUsd.                                           *)
C4_ReportedProfitExact ==
    (TableReturned /\ IsNum(apy_percent)) =>
        \A i \in DOMAIN Rows :
            /\ Rows[i].Profit.v = Rows[i].End.v - Rows[i].Start
            /\ Rows[i].Start = Rows[1].Start
            /\ Rows[i].Start * 10 = position_usd

(* C4 as amended: in every row of every table project_growth_table returns,   *)
(* the reported profit differs from the reported endValue - startValue by at  *)
(* most one cent (each is rounded to 2 decimals on its own; for a NaN APY     *)
(* endValue and profit are both NaN), and startValue is the same in all rows  *)
(* and equals positionUsd rounded to 2 decimals.                              *)
C4_ReportedProfitWithinCent ==
    TableReturned =>
        \A i \in DOMAIN Rows :
            /\ IF IsNum(apy_percent)
               THEN /\ IsNum(Rows[i].Profit) /\ IsNum(Rows[i].End)
                    /\ Abs(Rows[i].Profit.v - (Rows[i].End.v - Rows[i].Start)) <= 1
               ELSE Rows[i].Profit = NaN /\ Rows[i].End = NaN
            /\ Rows[i].Start = Rows[1].Start
            /\ Rows[i].Start = Round2(position_usd)

C4_Witness ==
    /\ TableReturned
    /\ IsNum(apy_percent)
    /\ position_usd % 10 # 0
    /\ \E i \in DOMAIN Rows : Rows[i].Profit.v # Rows[i].End.v - Rows[i].Start

(* the tolerance of the round trip: a year of compounding magnifies the last  *)
(* digit of the daily rate YearDays * (1 + apy) times                          *)
RateTol == YearDays * 4

(* C5: for apy_percent >= 0 the daily rate r of apy_to_daily_rate satisfies    *)
(* (1 + r)^365 - 1 = apy_percent/100 within tolerance, and                     *)
(* project_end_value(p, apy_percent, 365, compounded=True) is                  *)
(* p * (1 + apy_percent/100) within tolerance, for p >= 0.                     *)
C5_RoundTrip ==
    (IsNum(apy_percent) /\ apy_percent.v >= 0) =>
        LET target == Scale + apy_percent.v * Half
        IN  /\ pc = "apy_to_daily_rate" =>
                  /\ IsNum(result)
                  /\ Abs(PowFix(Scale + result.v, YearDays) - target) <= RateTol
            /\ (pc = "project_end_value" /\ compounded /\ days = YearDays
                    /\ position_usd >= 0) =>
                  /\ IsNum(result)
                  /\ Abs(result.v - MulFix(position_usd, target))
                        <= 1 + MulFix(position_usd, RateTol)

C5_Witness ==
    /\ pc = "project_end_value"
    /\ compounded
    /\ days = YearDays
    /\ position_usd = 100000
    /\ apy_percent = Num(1200)
    /\ result.v \in 111998..112002

---------------------------------------------------------------------------
(* The impermanent-loss table: step and max_move are the decimal literals  *)
(* step/100 and max_move/100, position_usd a whole number of dollars       *)

MaxRows == 41

StepSamples == {1, 5, 10, 25, 50}
MoveSamples == {5, 10, 25, 30, 50, 100, 150, 200}
ILPositionSamples == {0, 1000, 123457}
PriceChangeSamples == {-200, -150, -100, -50, -5, 0, 5, 50, 100}

InitIL ==
    /\ pc = "start"
    /\ position_usd \in ILPositionSamples
    /\ step \in StepSamples
    /\ max_move \in MoveSamples
    /\ 2 * max_move <= (MaxRows - 1) * step
    /\ result = NoResult
    /\ IdleProjection /\ IdleQuality /\ IdleApp

ImpermanentLoss ==
    /\ pc = "start"
    /\ \E price_change \in PriceChangeSamples :
          result' = [k |-> "il", x |-> price_change,
                     v |-> impermanent_loss(Hundredths(price_change))]
    /\ pc' = "impermanent_loss"
    /\ UNCHANGED <<inputs, appVars>>

BuildIlTable ==
    /\ pc = "start"
    /\ pc' = "build_il_table"
    /\ result' = build_il_table(FFromInt(position_usd), Hundredths(step),
                                Hundredths(max_move))
    /\ UNCHANGED <<inputs, appVars>>

NextIL ==
    \/ ImpermanentLoss
    \/ BuildIlTable

SpecIL == InitIL /\ [][NextIL]_vars

ILTableReturned == pc = "build_il_table" /\ result.k = "iltable"

(* C6: for max_move a multiple of step, build_il_table has exactly         *)
(* 2 * max_move / step + 1 rows whose 'Price move (%)' values are          *)
(* -100*max_move, -100*max_move + 100*step, ..., +100*max_move in          *)
(* ascending order, each exactly once (by default -50, -45, ..., 45, 50).  *)
C6_SymmetricGrid ==
    (ILTableReturned /\ max_move % step = 0) =>
        /\ Len(Rows) = (2 * max_move) \div step + 1
        /\ \A i \in DOMAIN Rows : Rows[i].Move = (i - 1) * step - max_move

(* the default table (step 0.05, max_move 0.50) is the grid -50, -45, ..., 50 *)
C6_DefaultGrid ==
    (ILTableReturned /\ step = 5 /\ max_move = 50) =>
        [i \in DOMAIN Rows |-> Rows[i].Move] = [i \in 1..21 |-> 5 * i - 55]

(* C7: impermanent loss is never a gain: in every row of build_il_table    *)
(* (position >= 0, move above -100%) ilPercent <= 0 and ilUsd <= 0, and    *)
(* the row at move 0 has ilPercent = 0 and ilUsd = 0; impermanent_loss(0)  *)
(* is 0 and impermanent_loss(m) <= 0 for m > -1.                           *)
C7_NeverAGain ==
    /\ ILTableReturned =>
          \A i \in DOMAIN Rows :
              Rows[i].Move > -100 =>
                  /\ FLeZero(Rows[i].ILPct)
                  /\ FLeZero(Rows[i].ILUsd)
                  /\ Rows[i].Move = 0 =>
                        FEqZero(Rows[i].ILPct) /\ FEqZero(Rows[i].ILUsd)
    /\ pc = "impermanent_loss" =>
          /\ result.x = 0 => FEqZero(result.v)
          /\ result.x > -100 => FLeZero(result.v)

(* the part of C7 that does not rest on the row labels: no impermanent     *)
(* loss is positive, and impermanent_loss(0) is exactly 0                  *)
ILNeverPositive ==
    /\ ILTableReturned =>
          \A i \in DOMAIN Rows :
              Rows[i].Move > -100 => FLeZero(Rows[i].ILPct) /\ FLeZero(Rows[i].ILUsd)
    /\ pc = "impermanent_loss" =>
          /\ result.x = 0 => FEqZero(result.v)
          /\ result.x > -100 => FLeZero(result.v)

(* C8: build_il_table rejects or clamps step and max_move, so that no      *)
(* returned row has a move <= -100% or an undefined (NaN / infinite)       *)
(* ilPercent or ilUsd.                                                     *)
C8_SingularityGuarded ==
    ILTableReturned =>
        \A i \in DOMAIN Rows :
            /\ Rows[i].Move > -100
            /\ FIsFinite(Rows[i].ILPct)
            /\ FIsFinite(Rows[i].ILUsd)

---------------------------------------------------------------------------
(* The pool quality assessor.  A field of the pool record is a Python      *)
(* value: Missing (no such key), None, NaN, a string, a bool or a number   *)
(* (whole dollars for tvlUsd and volumeUsd7d, hundredths of a percent for  *)
(* apy).                                                                   *)

Missing == [k |-> "missing", v |-> 0]
Str(t) == [k |-> "str", v |-> t]
Bool(b) == [k |-> "bool", v |-> b]

ThinTvl == 250000
VeryThinTvl == 100000

(* pool_row.get(key): None for a missing key *)
DictGet(x) == IF x.k = "missing" THEN None ELSE x

(* Python's truth value *)
Truthy(x) ==
    CASE x.k = "none" -> FALSE
      [] x.k = "num" -> x.v # 0
      [] x.k = "str" -> x.v # ""
      [] x.k = "bool" -> x.v
      [] OTHER -> TRUE

(* x or 0.0 *)
OrZero(x) == IF Truthy(x) THEN x ELSE Num(0)

(* float(text): the texts the records hold *)
ParseFloat(t) ==
    CASE t = "300000" -> Num(300000)
      [] t = "50000" -> Num(50000)
      [] t = "nan" -> NaN
      [] OTHER -> Raise

(* float(x): ValueError for a text that is no number, TypeError for None *)
ToFloat(x) ==
    CASE x.k = "num" -> x
      [] x.k = "nan" -> NaN
      [] x.k = "bool" -> Num(IF x.v THEN 1 ELSE 0)
      [] x.k = "str" -> ParseFloat(x.v)
      [] OTHER -> Raise

(* text.lower() *)
Lower(t) ==
    CASE t \in {"True", "TRUE", "true"} -> "true"
      [] t \in {"False", "false"} -> "false"
      [] OTHER -> t

(* x < limit and x <= limit on floats: false for a nan *)
FloatLess(x, limit) == IsNum(x) /\ x.v < limit
FloatLessEq(x, limit) == IsNum(x) /\ x.v <= limit

HasVolume(vol) ==
    LET f == ToFloat(vol)
    IN  vol.k # "none" /\ f.k # "raise" /\ f.k # "nan"

Outlier(x) ==
    LET o == IF x.k = "str" THEN Bool(Lower(x.v) = "true") ELSE x
    IN  IF o.k = "bool" THEN o ELSE None

assess_pool_quality(row) ==
    LET tvl == ToFloat(OrZero(DictGet(row.tvlUsd)))
        apy == ToFloat(OrZero(DictGet(row.apy)))
    IN  IF tvl.k = "raise" \/ apy.k = "raise" THEN Raise
        ELSE [k |-> "quality",
              tvl_usd |-> tvl,
              has_volume_7d |-> HasVolume(DictGet(row.volumeUsd7d)),
              is_outlier |-> Outlier(DictGet(row.outlier)),
              apy |-> apy,
              thin_tvl |-> FloatLess(tvl, ThinTvl),
              very_thin_tvl |-> FloatLess(tvl, VeryThinTvl),
              missing_or_zero_apy |-> FloatLessEq(apy, 0)]

(* the warnings, by what they are about, in the order they are appended *)
format_warnings(q) ==
    (IF q.missing_or_zero_apy THEN <<"apy">> ELSE <<>>)
    \o (IF q.very_thin_tvl THEN <<"very_thin_tvl">>
        ELSE IF q.thin_tvl THEN <<"thin_tvl">> ELSE <<>>)
    \o (IF ~q.has_volume_7d THEN <<"volume">> ELSE <<>>)
    \o (IF q.is_outlier = Bool(TRUE) THEN <<"outlier">> ELSE <<>>)

TvlSamples ==
    {Missing, None, NaN, Str(""), Str("abc"), Str("300000"),
     Num(0), Num(50000), Num(150000), Num(300000)}
PoolApySamples == {Missing, None, NaN, Str("abc"), Num(-100), Num(0), Num(1200)}
VolumeSamples == {Missing, None, NaN, Str("abc"), Str("50000"), Num(0), Num(5000)}
OutlierSamples == {Missing, None, Bool(TRUE), Bool(FALSE), Str("True"), Str("false"), Num(1)}

InitQuality ==
    /\ pc = "start"
    /\ pool_row \in [tvlUsd : TvlSamples, apy : PoolApySamples,
                     volumeUsd7d : VolumeSamples, outlier : OutlierSamples]
    /\ result = NoResult
    /\ position_usd = 0
    /\ IdleProjection /\ IdleIL /\ IdleApp

AssessPoolQuality ==
    /\ pc = "start"
    /\ pc' = "assess_pool_quality"
    /\ result' = assess_pool_quality(pool_row)
    /\ UNCHANGED <<inputs, appVars>>

FormatWarnings ==
    /\ pc = "assess_pool_quality"
    /\ result.k = "quality"
    /\ pc' = "format_warnings"
    /\ result' = [k |-> "warnings", v |-> format_warnings(result)]
    /\ UNCHANGED <<inputs, appVars>>

NextQuality ==
    \/ AssessPoolQuality
    \/ FormatWarnings

SpecQuality == InitQuality /\ [][NextQuality]_vars

(* absent (no key, None), NaN or malformed (a text that is no number) *)
AbsentOrMalformed(x) ==
    \/ x.k \in {"missing", "none", "nan"}
    \/ x.k = "str" /\ ParseFloat(x.v).k # "num"

(* C9: assess_pool_quality never raises, and an absent, NaN or malformed   *)
(* apy gives missing_or_zero_apy (as does any apy <= 0), an absent, NaN or *)
(* malformed tvlUsd gives tvl_usd = 0 with thin_tvl and very_thin_tvl, and *)
(* an absent, NaN or malformed volumeUsd7d gives has_volume_7d = false.    *)
C9_QualityTotal ==
    pc = "assess_pool_quality" =>
        /\ result.k = "quality"
        /\ (AbsentOrMalformed(pool_row.apy)
                \/ (IsNum(pool_row.apy) /\ pool_row.apy.v <= 0))
              => result.missing_or_zero_apy
        /\ AbsentOrMalformed(pool_row.tvlUsd) =>
              /\ result.tvl_usd = Num(0)
              /\ result.thin_tvl
              /\ result.very_thin_tvl
        /\ AbsentOrMalformed(pool_row.volumeUsd7d) => ~result.has_volume_7d

---------------------------------------------------------------------------
(* The app's reruns against the cached get_pools_df.  st.cache_data keeps  *)
(* one entry per argument value and serves it while it is younger than the *)
(* ttl; the function body (the remote fetch) runs only on a miss.  Data is *)
(* identified by the time it was fetched.                                  *)

TtlMinutes == 15
MaxClock == 18

NoEntry == -1

InitApp ==
    /\ pc = "start"
    /\ clock = 0
    /\ cache = [key \in BOOLEAN |-> NoEntry]
    /\ refresh = FALSE
    /\ pools_df = -1
    /\ fetched = FALSE
    /\ pressed_at = -1
    /\ result = NoResult
    /\ position_usd = 0
    /\ IdleProjection /\ IdleIL /\ IdleQuality

CacheHit(force_refresh) ==
    cache[force_refresh] # NoEntry /\ clock - cache[force_refresh] < TtlMinutes

(* one run of app.py: pools_df = get_pools_df(force_refresh=refresh); the  *)
(* button is True in the rerun its press triggers and False in the others; *)
(* ok is whether the remote call succeeds (else it raises, nothing cached) *)
Rerun(button, ok) ==
    /\ refresh' = button
    /\ pressed_at' = IF button THEN clock ELSE pressed_at
    /\ IF CacheHit(button)
       THEN /\ pools_df' = cache[button]
            /\ fetched' = FALSE
            /\ cache' = cache
       ELSE /\ fetched' = TRUE
            /\ pools_df' = IF ok THEN clock ELSE -1
            /\ cache' = IF ok THEN [cache EXCEPT ![button] = clock] ELSE cache
    /\ UNCHANGED <<clock, pc, inputs, result>>

Tick ==
    /\ clock < MaxClock
    /\ clock' = clock + 1
    /\ UNCHANGED <<cache, refresh, pools_df, fetched, pressed_at, pc, inputs, result>>

NextApp ==
    \/ \E button \in BOOLEAN, ok \in BOOLEAN : Rerun(button, ok)
    \/ Tick

SpecApp == InitApp /\ [][NextApp]_vars

(* C10: a rerun with the button pressed performs a new remote fetch, and   *)
(* the data returned on that rerun and on the following ones is never      *)
(* older than that refresh.                                                *)
C10_RefreshIsFresh ==
    /\ refresh => fetched
    /\ (pressed_at >= 0 /\ pools_df >= 0) => pools_df >= pressed_at

=============================================================================
